---- MODULE Spec2Model ----
(***************************************************************************)
(* Tabular Q-Learning agent of HW4/src/q_learning.py: QLearning.fit and    *)
(* QLearning.predict, run against a discrete environment (env.reset,       *)
(* env.step) and the random source src.random (uniform, randint).          *)
(*                                                                         *)
(* Numbers.  epsilon, alpha, gamma and the draw u are kept in halves       *)
(* (0, 1/2, 1 are 0, 1, 2).  Entries of the value table are kept as        *)
(* numerators over Den, a power of 4: one update multiplies the            *)
(* denominator of an entry by at most 4 (alpha and gamma are halves), so   *)
(* every value fit produces in the iterations it is given here is          *)
(* represented exactly (C1_TDUpdate fails on any rounding).  An            *)
(* entry of the reward report is a fraction [num, den]: np.mean of a slice *)
(* is [sum, length], so the mean of an empty slice is 0/0 (nan).           *)
(***************************************************************************)
EXTENDS Integers, Sequences, FiniteSets, TLC

\* ---------------------------------------------------------------- bounds
MaxSteps == 2        \* largest `steps` passed to fit on an arbitrary environment
MaxBanditSteps == 4  \* largest `steps` passed to fit on the bandit environment
MaxBins == 2         \* largest `num_bins` passed to fit
MaxBinSteps == 10    \* largest `steps` passed to fit under SpecBins
MaxEpisode == 2      \* cap on the env.step calls of one predict episode

\* Line 90: n_actions, n_states = env.action_space.n, env.observation_space.n
\* of the environments passed in
n_states == 2
n_actions == 2

RECURSIVE Pow4(_)
Pow4(k) == IF k <= 0 THEN 1 ELSE 4 * Pow4(k - 1)

Den == Pow4(IF MaxSteps > MaxBanditSteps THEN MaxSteps ELSE MaxBanditSteps)

StateIds == 0..(n_states - 1)
ActionIds == 0..(n_actions - 1)
Rewards == {0, 1}
\* The agents built: <<epsilon, alpha, gamma>> in halves
Agents == {<<0, 2, 0>>, <<1, 1, 1>>, <<1, 2, 2>>, <<2, 1, 2>>}
\* The entries of the tables handed to predict directly
TableValues == {0 - Den, 0, Den}
Tables == [StateIds -> [ActionIds -> TableValues]]
UVals == {0, 1}

VARIABLES
    pc,                   \* position of the caller: which operation runs, and where
    error,                \* the exception a call ended in, or "none"
    envKind,              \* which environment is passed in: "any" or "bandit"
    epsilon, alpha, gamma,        \* self.epsilon, self.alpha, self.gamma (halves)
    steps, num_bins,      \* arguments of fit
    state_action_values,  \* the S x A table (numerators over Den)
    avg_rewards,          \* fit's reward report
    all_rewards,          \* fit's raw reward trace
    current_state,
    step,                 \* number of iterations of fit's loop completed
    rand_num_expl,        \* the uniform draw of the latest iteration of fit
    indices,              \* the maximal indices found by the latest exploitation
    action,
    step_dat,             \* result of the latest env.step
    last_state,
    next_state,           \* fit's next_state: 0, or the state env.reset returned
    states, actions, rewards,     \* predict's trajectory
    terminated, truncated,        \* predict's loop flags
    env_resets, env_steps,        \* env.reset / env.step calls of the call in progress
    env_last,             \* the latest env.step call: the action passed, the answer
    rand_log,             \* src.random calls of the latest iteration, in order
    rand_count            \* src.random calls of the call in progress

vars == <<pc, error, envKind, epsilon, alpha, gamma, steps, num_bins,
          state_action_values, avg_rewards, all_rewards, current_state, step,
          rand_num_expl, indices, action, step_dat, last_state, next_state,
          states, actions, rewards, terminated, truncated,
          env_resets, env_steps, env_last, rand_log, rand_count>>

\* ------------------------------------------------------------ environment
\* env.reset(): the states an environment may start an episode in.
EnvReset == IF envKind = "bandit" THEN {0} ELSE StateIds

\* env.step(a) from state s: the (next_state, reward, terminated, truncated)
\* tuples the environment may answer.  "bandit" is the deterministic
\* environment in which action 0 pays 1, every other action pays 0, and every
\* step ends the episode; "any" is an arbitrary environment.
EnvStep(s, a) ==
    IF envKind = "bandit"
    THEN {[state |-> 1, reward |-> IF a = 0 THEN 1 ELSE 0,
           terminated |-> TRUE, truncated |-> FALSE]}
    ELSE [state : StateIds, reward : Rewards,
          terminated : BOOLEAN, truncated : BOOLEAN]

NoStep == [state |-> 0, reward |-> 0, terminated |-> FALSE, truncated |-> FALSE]

\* ----------------------------------------------------------- pure helpers
Zeros == [s \in StateIds |-> [a \in ActionIds |-> 0]]

\* np.max(row)
RowMax(row) == CHOOSE m \in {row[a] : a \in ActionIds} :
                   \A a \in ActionIds : row[a] <= m

\* np.argmax in place of np.where: only the lowest maximal index
MaxIndices_argmax(row) ==
    <<CHOOSE a \in ActionIds :
          /\ row[a] = RowMax(row)
          /\ \A b \in ActionIds : row[b] = RowMax(row) => a <= b>>

\* np.where(row == np.max(row))[0]: the maximal indices, ascending
MaxIndices(row) ==
    LET IsMax(a) == row[a] = RowMax(row)
    IN SelectSeq([i \in 1..n_actions |-> i - 1], IsMax)

Uniform(u) == [fn |-> "uniform", high |-> 2, value |-> u]
Randint(n, v) == [fn |-> "randint", high |-> n, value |-> v]

\* an exploitation that makes no randint call when the maximum is unique
SelectAction_nodraw(u, row) ==
    IF u < epsilon
    THEN {[action |-> v, indices |-> indices,
           log |-> <<Uniform(u), Randint(n_actions, v)>>] : v \in ActionIds}
    ELSE LET ind == MaxIndices(row)
         IN IF Len(ind) = 1
            THEN {[action |-> ind[1], indices |-> ind, log |-> <<Uniform(u)>>]}
            ELSE {[action |-> ind[v + 1], indices |-> ind,
                   log |-> <<Uniform(u), Randint(Len(ind), v)>>] : v \in 0..(Len(ind) - 1)}

\* Lines 101-113: the outcomes of one action selection of fit in a state whose
\* row is `row`, given the uniform draw u: the action, the indices found and
\* the random calls made.
SelectAction(u, row) ==
    IF u < epsilon
    THEN {[action |-> v, indices |-> indices,
           log |-> <<Uniform(u), Randint(n_actions, v)>>] : v \in ActionIds}
    ELSE LET ind == MaxIndices(row)
         IN {[action |-> ind[v + 1], indices |-> ind,
              log |-> <<Uniform(u), Randint(Len(ind), v)>>] : v \in 0..(Len(ind) - 1)}

\* bootstrapping from the reset state once the episode has ended
BootstrapState_reset(sd, rs) == IF sd.truncated \/ sd.terminated THEN rs ELSE sd.state

\* Line 134: the state whose row the update bootstraps from; sd is the result
\* of env.step and rs the state a reset returned (fit's next_state).
BootstrapState(sd, rs) == sd.state

\* an update written to the row of the next state instead of the last state
TDUpdate_row(Q, s, a, r, sn) ==
    [Q EXCEPT ![sn][a] =
        Q[sn][a] + (alpha * (2 * r * Den + gamma * RowMax(Q[sn]) - 2 * Q[sn][a])) \div 4]

\* Line 135: Q[s][a] += alpha * (r + gamma * max Q[sn] - Q[s][a]), in
\* numerators over Den with alpha and gamma in halves.
TDUpdate(Q, s, a, r, sn) ==
    [Q EXCEPT ![s][a] =
        Q[s][a] + (alpha * (2 * r * Den + gamma * RowMax(Q[sn]) - 2 * Q[s][a])) \div 4]

\* lines 137-138 left out: the reset state never becomes the current state
AdvanceState_noreset(sd, rs) == sd.state

\* Lines 137-138: the current state of the next iteration.
AdvanceState(sd, rs) == IF sd.truncated \/ sd.terminated THEN rs ELSE sd.state

\* Lines 125-127: next_state = 0, replaced by env.reset()[0] when the step ended
\* the episode; `calls` is the number of env.reset calls this makes.
ResetAfter(sd) ==
    IF sd.truncated \/ sd.terminated
    THEN {[calls |-> 1, state |-> s] : s \in EnvReset}
    ELSE {[calls |-> 0, state |-> 0]}

\* --------------------------------------------------------- reward report
\* int(np.ceil(a / b)) for b > 0
CeilDiv(a, b) == 0 - ((0 - a) \div b)

\* Python's clipping of a slice bound i for a list of length n
PyBound(i, n) == IF i < 0 THEN (IF i + n < 0 THEN 0 ELSE i + n)
                 ELSE (IF i > n THEN n ELSE i)

\* seq[lo:hi]
PySlice(seq, lo, hi) == SubSeq(seq, PyBound(lo, Len(seq)) + 1, PyBound(hi, Len(seq)))

RECURSIVE SeqSum(_)
SeqSum(seq) == IF seq = <<>> THEN 0 ELSE Head(seq) + SeqSum(Tail(seq))

\* np.mean(seq): the sum over the length; 0/0 (nan) for an empty seq
Mean(seq) == [num |-> SeqSum(seq), den |-> Len(seq)]

ZeroAvg == [num |-> 0, den |-> 1]

\* Line 145: the value of a bin whose bounds are start_ind and end_ind
BinValue(trace, start_ind, end_ind) ==
    IF end_ind > start_ind THEN Mean(PySlice(trace, start_ind, end_ind)) ELSE ZeroAvg

\* a report that divides the sum of every bin by bin_size, the last bin included
BinRewards_even(trace, n, nb) ==
    LET bin_size == CeilDiv(n, nb)
    IN [i \in 1..nb |->
          LET bin_ind == i - 1
              start_ind == bin_ind * bin_size
              end_ind == IF bin_ind < nb - 1 THEN start_ind + bin_size ELSE Len(trace)
          IN IF end_ind > start_ind
             THEN [num |-> SeqSum(PySlice(trace, start_ind, end_ind)), den |-> bin_size]
             ELSE ZeroAvg]

\* Lines 141-145: the report of num_bins (nb > 0) averaged rewards
BinRewards(trace, n, nb) ==
    LET bin_size == CeilDiv(n, nb)
    IN [i \in 1..nb |->
          LET bin_ind == i - 1
              start_ind == bin_ind * bin_size
              end_ind == IF bin_ind < nb - 1 THEN start_ind + bin_size ELSE Len(trace)
          IN BinValue(trace, start_ind, end_ind)]

\* ------------------------------------------------------------------- fit
\* Lines 90-95: allocate the table and the report, reset the environment.
\* np.zeros([num_bins]) raises ValueError for a negative num_bins, before
\* env.reset is reached.
FitSetup ==
    /\ pc = "start"
    /\ IF num_bins < 0
       THEN /\ pc' = "fit_error"
            /\ error' = "ValueError"
            /\ UNCHANGED <<avg_rewards, current_state, env_resets>>
       ELSE /\ pc' = "fit_loop"
            /\ avg_rewards' = [i \in 1..num_bins |-> ZeroAvg]
            /\ \E s \in EnvReset : current_state' = s
            /\ env_resets' = 1
            /\ UNCHANGED error
    /\ state_action_values' = Zeros
    /\ all_rewards' = <<>>
    /\ UNCHANGED <<envKind, epsilon, alpha, gamma, steps, num_bins, step,
                   rand_num_expl, indices, action, step_dat, last_state, next_state,
                   states, actions, rewards, terminated, truncated,
                   env_steps, env_last, rand_log, rand_count>>

\* Lines 99-138: one iteration of the loop.
FitIter ==
    /\ pc = "fit_loop"
    /\ step < steps
    /\ \E u \in UVals :
       \E sel \in SelectAction(u, state_action_values[current_state]) :
       \E sd \in EnvStep(current_state, sel.action) :
       \E rs \in ResetAfter(sd) :
          /\ rand_num_expl' = u
          /\ action' = sel.action
          /\ indices' = sel.indices
          /\ rand_log' = sel.log
          /\ rand_count' = rand_count + Len(sel.log)
          /\ step_dat' = sd
          /\ env_steps' = env_steps + 1
          /\ env_last' = [action |-> sel.action, answer |-> sd]
          /\ last_state' = current_state
          /\ next_state' = rs.state
          /\ env_resets' = env_resets + rs.calls
          /\ all_rewards' = Append(all_rewards, sd.reward)
          /\ state_action_values' =
                 TDUpdate(state_action_values, current_state, sel.action, sd.reward,
                          BootstrapState(sd, rs.state))
          /\ current_state' = AdvanceState(sd, rs.state)
    /\ step' = step + 1
    /\ UNCHANGED <<pc, error, envKind, epsilon, alpha, gamma, steps, num_bins,
                   avg_rewards, states, actions, rewards, terminated, truncated>>

\* Lines 140-148: bin the reward trace and return.  steps / num_bins raises
\* ZeroDivisionError when num_bins is 0.
FitReport ==
    /\ pc = "fit_loop"
    /\ step >= steps
    /\ IF num_bins = 0
       THEN /\ pc' = "fit_error"
            /\ error' = "ZeroDivisionError"
            /\ UNCHANGED avg_rewards
       ELSE /\ pc' = "fit_done"
            /\ avg_rewards' = BinRewards(all_rewards, steps, num_bins)
            /\ UNCHANGED error
    /\ UNCHANGED <<envKind, epsilon, alpha, gamma, steps, num_bins,
                   state_action_values, all_rewards, current_state, step,
                   rand_num_expl, indices, action, step_dat, last_state, next_state,
                   states, actions, rewards, terminated, truncated,
                   env_resets, env_steps, env_last, rand_log, rand_count>>

\* --------------------------------------------------------------- predict
\* a loop that stops on terminated alone
PredictContinue_terminated == ~terminated

\* Line 202: the loop condition.
PredictContinue == ~(terminated \/ truncated)

\* Lines 204-212: the outcomes of one action selection of predict.
PredictAction(row) ==
    LET ind == MaxIndices(row)
    IN {[action |-> ind[v + 1], indices |-> ind,
         log |-> <<Randint(Len(ind), v)>>] : v \in 0..(Len(ind) - 1)}

\* a predict that keeps learning
PredictTable_update(Q, s, a, sd) == TDUpdate(Q, s, a, sd.reward, sd.state)

\* Lines 204-223 only read state_action_values: the table after an iteration
\* that took action a in state s and was answered sd.
PredictTable(Q, s, a, sd) == Q

\* Lines 194-200: empty trajectory, reset the environment.
\* The caller either passes a table of its own (pc = "predict_start"), or, in
\* the end-to-end scenario on the bandit environment, the table fit returned.
PredictSetup ==
    /\ \/ pc = "predict_start"
       \/ pc = "fit_done" /\ envKind = "bandit"
    /\ pc' = "predict_loop"
    /\ states' = <<>> /\ actions' = <<>> /\ rewards' = <<>>
    /\ \E s \in EnvReset : current_state' = s
    /\ terminated' = FALSE /\ truncated' = FALSE
    /\ env_resets' = 1 /\ env_steps' = 0
    /\ rand_log' = <<>> /\ rand_count' = 0
    /\ UNCHANGED <<error, envKind, epsilon, alpha, gamma, steps, num_bins,
                   state_action_values, avg_rewards, all_rewards, step,
                   rand_num_expl, indices, action, step_dat, last_state, next_state,
                   env_last>>

\* Lines 202-223: one iteration of the loop.
PredictIter ==
    /\ pc = "predict_loop"
    /\ PredictContinue
    /\ env_steps < MaxEpisode
    /\ \E sel \in PredictAction(state_action_values[current_state]) :
       \E sd \in EnvStep(current_state, sel.action) :
          /\ indices' = sel.indices
          /\ action' = sel.action
          /\ rand_log' = sel.log
          /\ rand_count' = rand_count + Len(sel.log)
          /\ env_steps' = env_steps + 1
          /\ env_last' = [action |-> sel.action, answer |-> sd]
          /\ terminated' = sd.terminated
          /\ truncated' = sd.truncated
          /\ states' = Append(states, sd.state)
          /\ actions' = Append(actions, sel.action)
          /\ rewards' = Append(rewards, sd.reward)
          /\ state_action_values' =
                 PredictTable(state_action_values, current_state, sel.action, sd)
          /\ current_state' = sd.state
    /\ UNCHANGED <<pc, error, envKind, epsilon, alpha, gamma, steps, num_bins,
                   avg_rewards, all_rewards, step, rand_num_expl, step_dat,
                   last_state, next_state, env_resets>>

\* Line 225: the loop has ended, return the trajectory.
PredictReturn ==
    /\ pc = "predict_loop"
    /\ ~PredictContinue
    /\ pc' = "predict_done"
    /\ UNCHANGED <<error, envKind, epsilon, alpha, gamma, steps, num_bins,
                   state_action_values, avg_rewards, all_rewards, current_state, step,
                   rand_num_expl, indices, action, step_dat, last_state, next_state,
                   states, actions, rewards, terminated, truncated,
                   env_resets, env_steps, env_last, rand_log, rand_count>>

\* ------------------------------------------------------- specifications
Locals ==
    /\ error = "none"
    /\ avg_rewards = <<>>
    /\ all_rewards = <<>>
    /\ current_state = 0
    /\ step = 0
    /\ rand_num_expl = 0
    /\ indices = <<>>
    /\ action = 0
    /\ step_dat = NoStep
    /\ last_state = 0
    /\ next_state = 0
    /\ states = <<>> /\ actions = <<>> /\ rewards = <<>>
    /\ terminated = FALSE /\ truncated = FALSE
    /\ env_resets = 0 /\ env_steps = 0
    /\ env_last = [action |-> 0, answer |-> NoStep]
    /\ rand_log = <<>>
    /\ rand_count = 0

\* Either fit is called, by any of the agents, on either environment, with any
\* steps and num_bins, the invalid ones (0, -1) included; or predict is called
\* on an arbitrary environment with any table of Tables.
Init ==
    /\ Locals
    /\ \/ /\ pc = "start"
          /\ \E ag \in Agents : epsilon = ag[1] /\ alpha = ag[2] /\ gamma = ag[3]
          /\ \/ envKind = "any" /\ steps \in (0 - 1)..MaxSteps
             \/ envKind = "bandit" /\ steps \in (0 - 1)..MaxBanditSteps
          /\ num_bins \in (0 - 1)..MaxBins
          /\ state_action_values = Zeros
       \/ /\ pc = "predict_start"
          /\ envKind = "any"
          /\ epsilon = 0 /\ alpha = 2 /\ gamma = 2
          /\ steps = 0 /\ num_bins = 0
          /\ state_action_values \in Tables

Next == FitSetup \/ FitIter \/ FitReport \/ PredictSetup \/ PredictIter \/ PredictReturn

Spec == Init /\ [][Next]_vars

\* fit alone on the bandit environment with an always-exploring agent, so that
\* the reward trace ranges over every 0/1 sequence of every length up to
\* MaxBinSteps.
InitBins ==
    /\ Locals
    /\ pc = "start"
    /\ envKind = "bandit"
    /\ epsilon = 2 /\ alpha = 2 /\ gamma = 0
    /\ steps \in 1..MaxBinSteps
    /\ num_bins \in 1..(MaxBins + 2)
    /\ state_action_values = Zeros

NextBins == FitSetup \/ FitIter \/ FitReport

SpecBins == InitBins /\ [][NextBins]_vars

\* ------------------------------------------------------------ properties
FitStepped == pc = "fit_loop" /\ step' = step + 1
PredictStepped == pc = "predict_loop" /\ env_steps' = env_steps + 1
Done(sd) == sd.terminated \/ sd.truncated
IsRowMax(row, m) == (\E a \in ActionIds : row[a] = m) /\ (\A a \in ActionIds : row[a] <= m)
Maximal(row) == {a \in ActionIds : \A b \in ActionIds : row[b] <= row[a]}

\* C1: every iteration of fit adds alpha * (reward + gamma * max Q[s_next] - Q[s][a])
\* to Q[s][a] and changes no other entry, where s is the current state before
\* env.step, a the action passed to it and s_next the state that step answered,
\* also when the step ended the episode and env.reset answered another state.
C1_TDUpdate ==
    [][FitStepped =>
        LET Q == state_action_values
            s == current_state
            a == env_last'.action
            r == env_last'.answer.reward
            sn == env_last'.answer.state
        IN /\ last_state' = s
           /\ action' = a
           /\ \E m \in {Q[sn][b] : b \in ActionIds} :
                 /\ IsRowMax(Q[sn], m)
                 /\ 4 * (state_action_values'[s][a] - Q[s][a])
                        = alpha * (2 * r * Den + gamma * m - 2 * Q[s][a])
           /\ \A s2 \in StateIds, a2 \in ActionIds :
                 <<s2, a2>> # <<s, a>> => state_action_values'[s2][a2] = Q[s2][a2]
    ]_vars

\* An iteration whose step ended the episode, whose reset answered another state
\* than the step, the rows of the two states having different maxima.
C1_Witness ==
    /\ pc = "fit_loop" /\ step > 1
    /\ alpha > 0 /\ gamma > 0
    /\ Done(step_dat)
    /\ next_state # step_dat.state
    /\ last_state = next_state
    /\ RowMax(state_action_values[next_state]) # RowMax(state_action_values[step_dat.state])
    /\ RowMax(state_action_values[step_dat.state]) > 0

\* C2: an action chosen by exploitation (fit with u >= epsilon, every step of
\* predict) is an index of [0, A) whose value is the maximum of the current
\* state's row, and every index attaining the maximum can be chosen.
C2_Exploit ==
    /\ [][(FitStepped /\ ~(rand_num_expl' < epsilon)) \/ PredictStepped =>
            /\ action' \in ActionIds
            /\ IsRowMax(state_action_values[current_state],
                        state_action_values[current_state][action'])
            /\ env_last'.action = action'
       ]_vars
    /\ [](pc = "predict_loop" /\ PredictContinue /\ env_steps < MaxEpisode =>
            \A a \in Maximal(state_action_values[current_state]) :
                ENABLED (PredictIter /\ action' = a))
    /\ [](pc = "fit_loop" /\ step < steps /\ (\E u \in UVals : ~(u < epsilon)) =>
            \A a \in Maximal(state_action_values[current_state]) :
                ENABLED (FitIter /\ ~(rand_num_expl' < epsilon) /\ action' = a))

\* An exploitation of fit on a row with two maximal indices that chose the
\* higher one.
C2_Witness ==
    /\ pc = "fit_loop" /\ step > 1
    /\ ~(rand_num_expl < epsilon)
    /\ Len(indices) = 2
    /\ action = indices[2]
    /\ rand_log[2] = Randint(2, 1)

\* C3: every iteration of fit makes exactly two random calls: uniform, then
\* randint over [0, A) if u < epsilon and over [0, number of maximal indices of
\* the current row) otherwise; env.reset makes none; with epsilon = 1 no
\* iteration exploits; fit as a whole makes at least steps + 1 calls.
C3_Draws ==
    /\ [][FitStepped =>
            /\ rand_count' = rand_count + 2
            /\ Len(rand_log') = 2
            /\ rand_log'[1].fn = "uniform"
            /\ rand_log'[1].value = rand_num_expl' /\ rand_num_expl' \in {0, 1}
            /\ rand_log'[2].fn = "randint"
            /\ rand_log'[2].high =
                  IF rand_num_expl' < epsilon THEN n_actions
                  ELSE Cardinality(Maximal(state_action_values[current_state]))
            /\ rand_log'[2].value \in 0..(rand_log'[2].high - 1)
            /\ (epsilon = 2 => rand_num_expl' < epsilon)
       ]_vars
    /\ [](pc \in {"fit_loop", "fit_done"} => rand_count = 2 * step)
    /\ [](pc = "fit_done" /\ steps >= 1 => step = steps /\ rand_count >= steps + 1)

\* After a reset, an exploitation on a row with a single maximum: the randint
\* call over one index was still made.
C3_Witness ==
    /\ pc = "fit_loop" /\ step > 1
    /\ env_resets > 1
    /\ ~(rand_num_expl < epsilon)
    /\ Len(indices) = 1
    /\ rand_log = <<Uniform(rand_num_expl), Randint(1, 0)>>
    /\ rand_count = 2 * step

\* C4: an iteration of fit whose step reports terminated or truncated calls
\* env.reset exactly once and the state it answers is the current state of the
\* next iteration; otherwise env.reset is not called and the current state is
\* the step's next_state.  The table update of the iteration is made for the
\* state the iteration started in.
C4_Reset ==
    [][FitStepped =>
        /\ env_steps' = env_steps + 1
        /\ step_dat' = env_last'.answer
        /\ last_state' = current_state
        /\ IF Done(step_dat')
           THEN /\ env_resets' = env_resets + 1
                /\ next_state' \in EnvReset
                /\ current_state' = next_state'
           ELSE /\ env_resets' = env_resets
                /\ current_state' = step_dat'.state
    ]_vars

\* A step that ended the episode, the reset answering another state than the
\* step did.
C4_Witness ==
    /\ pc = "fit_loop" /\ step > 0
    /\ Done(step_dat)
    /\ env_resets = 2
    /\ current_state = next_state
    /\ current_state # step_dat.state

RECURSIVE SumOver(_, _)
SumOver(trace, S) ==
    IF S = {} THEN 0
    ELSE LET j == CHOOSE k \in S : TRUE
         IN trace[j + 1] + SumOver(trace, S \ {j})

\* bin_size = ceil(steps / num_bins): the least k with k * num_bins >= steps
CeilOf(n, nb) == CHOOSE k \in 0..n : k * nb >= n /\ \A k2 \in 0..(k - 1) : k2 * nb < n

\* the trace indices bin i (0-indexed) covers
Covered(i, n, nb) ==
    LET bs == CeilOf(n, nb)
        hi == IF i < nb - 1 THEN (i + 1) * bs ELSE n
    IN {j \in 0..(n - 1) : i * bs <= j /\ j < hi}

\* C5: for steps >= 1 and num_bins >= 1 the report has num_bins entries, and
\* the entry of a bin is the sum of the rewards at the trace indices the bin
\* covers divided by the number of those indices.
C5_Bins ==
    pc = "fit_done" /\ steps >= 1 /\ num_bins >= 1 =>
        /\ Len(avg_rewards) = num_bins
        /\ Len(all_rewards) = steps
        /\ \A i \in 0..(num_bins - 1) :
              LET cov == Covered(i, steps, num_bins)
              IN cov # {} =>
                    /\ avg_rewards[i + 1].den = Cardinality(cov)
                    /\ avg_rewards[i + 1].num = SumOver(all_rewards, cov)

\* steps = 10, num_bins = 3: the last bin is the average of two rewards.
C5_Witness ==
    /\ pc = "fit_done" /\ steps = 10 /\ num_bins = 3
    /\ all_rewards[9] = 1 /\ all_rewards[10] = 0
    /\ avg_rewards[3] = [num |-> 1, den |-> 2]
    /\ avg_rewards[1].den = 4

\* C6: for steps >= 1 and num_bins >= 1 a bin that covers no entry of the trace
\* reports 0, no entry of the report is the mean of an empty slice, and only
\* the final bin can cover no entry.
C6_NoEmptyMean ==
    pc = "fit_done" /\ steps >= 1 /\ num_bins >= 1 =>
        \A i \in 0..(num_bins - 1) :
            /\ avg_rewards[i + 1].den # 0
            /\ Covered(i, steps, num_bins) = {} =>
                  /\ avg_rewards[i + 1] = ZeroAvg
                  /\ i = num_bins - 1

\* C7: predict never changes an entry of the table passed to it.
C7_ReadOnly ==
    [][(pc \in {"predict_start", "predict_loop", "predict_done"} \/ pc' = "predict_loop")
          => (state_action_values' = state_action_values)]_vars

\* A two-step episode of predict on a table that is not all zero.
C7_Witness ==
    /\ pc = "predict_done"
    /\ Len(states) = 2
    /\ rewards = <<1, 1>>
    /\ state_action_values # Zeros

\* C8: predict calls env.reset once, steps until the first step that reports
\* terminated or truncated and stops right after it; its three sequences have
\* the length K >= 1 of the env.step calls made, the k-th entries being the
\* state answered by, the action passed to and the reward answered by the
\* k-th call.
C8_Trajectory ==
    /\ [](pc \in {"predict_loop", "predict_done"} =>
            /\ env_resets = 1
            /\ Len(states) = env_steps
            /\ Len(actions) = env_steps
            /\ Len(rewards) = env_steps
            /\ (pc = "predict_done" => env_steps >= 1 /\ Done(env_last.answer)))
    /\ [][PredictStepped =>
            /\ env_steps > 0 => ~Done(env_last.answer)
            /\ states' = Append(states, env_last'.answer.state)
            /\ actions' = Append(actions, env_last'.action)
            /\ rewards' = Append(rewards, env_last'.answer.reward)
            /\ env_resets' = env_resets
       ]_vars
    /\ [][pc = "predict_loop" /\ env_steps > 0 /\ env_steps < MaxEpisode
            /\ Done(env_last.answer) => pc' = "predict_done"]_vars

\* An episode of two steps that ended by truncation.
C8_Witness ==
    /\ pc = "predict_done"
    /\ env_steps = 2
    /\ truncated /\ ~terminated
    /\ states[1] # states[2]
    /\ current_state # states[1]

BanditScenario ==
    /\ envKind = "bandit"
    /\ epsilon = 0 /\ alpha = 2 /\ gamma = 0
    /\ steps >= 2
    /\ pc \in {"fit_done", "predict_loop", "predict_done"}

\* C9 as stated: on the bandit environment with epsilon = 0, alpha = 1,
\* gamma = 0 and steps >= 2, Q[0,0] = 1.0 after fit for every outcome of the
\* tie-breaking draws, and predict chooses action 0 from state 0.
C9_Original ==
    BanditScenario =>
        /\ state_action_values[0][0] = Den
        /\ (pc = "predict_done" => actions[1] = 0)

\* C9 amended: Q[0,0] = 1.0 after fit exactly when one of fit's steps took
\* action 0 (was paid 1), and is 0 otherwise; predict on a table with
\* Q[0,0] = 1.0 chooses action 0 from state 0.
C9_Amended ==
    BanditScenario =>
        /\ state_action_values[0][0] =
              IF \E i \in 1..Len(all_rewards) : all_rewards[i] = 1 THEN Den ELSE 0
        /\ (pc = "predict_done" /\ state_action_values[0][0] = Den => actions = <<0>>)

\* fit took action 0 in its last step only, predict then chose action 0.
C9_Witness ==
    /\ BanditScenario
    /\ pc = "predict_done"
    /\ all_rewards[1] = 0 /\ all_rewards[Len(all_rewards)] = 1
    /\ state_action_values[0][0] = Den
    /\ actions = <<0>>

\* C10: fit called with steps <= 0 or num_bins <= 0 ends in an
\* InvalidConfiguration error, raised before any env.reset or env.step.
C10_InvalidConfiguration ==
    pc \in {"fit_loop", "fit_done", "fit_error"} /\ (steps <= 0 \/ num_bins <= 0) =>
        /\ pc = "fit_error"
        /\ error = "InvalidConfiguration"
        /\ env_resets = 0
        /\ env_steps = 0

====
